---- MODULE Spec2Model ----
(***************************************************************************)
(* Demand vs. inventory analyser (app.py).                                 *)
(*                                                                         *)
(* One run of the script: the four uploaded tables are prepared, the net   *)
(* inventory (MB52 - COOIS) is built, the ZCO41 sales orders are evaluated *)
(* one after another against the running availability, and the shortage    *)
(* and past-due reports are derived.                                       *)
(*                                                                         *)
(* Tables are sequences of records, dictionaries are functions on the set  *)
(* of their keys.  Quantities are integers; an unreadable cell is BadCell. *)
(***************************************************************************)
EXTENDS Integers, Sequences, FiniteSets

VARIABLES
    pc,                 \* position of the script
    mb52_df,            \* uploaded MB52 rows      [NonCustom, OpenQty]
    coois_df,           \* uploaded COOIS rows     [Qty, Custom, SO, EstShip]
    zco41_df,           \* uploaded ZCO41 rows     [Qty, EstShip, SO, Custom]
    coois_use,          \* prep_coois: rows with numeric Qty, NonCustom, EstShip
    zco_use,            \* prep_zco41: rows with numeric Qty, NonCustom, EstShip
    inv_after,          \* NonCustom -> Avail, lines 272-274
    avail_dict,         \* evaluate_orders: running availability
    pending,            \* evaluate_orders: sales orders the loop has yet to visit
    orders_out,         \* evaluate_orders: one record per visited sales order
    lines_out,          \* evaluate_orders: one record per checked line
    orders_df,          \* returned order summary
    lines_df,           \* returned line detail
    final_avail_df,     \* returned availability after approvals
    inventario_necesito,
    past_due_zco,
    past_due_coois,
    balances,           \* FIFO allocator: balance records in priority order
    results,            \* FIFO allocator: allocation results so far
    served              \* FIFO allocator: number of requests handled

analyser == << pc, mb52_df, coois_df, zco41_df, coois_use, zco_use, inv_after,
               avail_dict, pending, orders_out, lines_out, orders_df, lines_df,
               final_avail_df, inventario_necesito, past_due_zco, past_due_coois >>

allocator == << balances, results, served >>

vars == << analyser, allocator >>

-----------------------------------------------------------------------------
(* Bounds of the model *)

MaxZcoLines == 2        \* rows of an enumerated ZCO41 table
MaxRows     == 2        \* rows of an enumerated MB52 or COOIS table
MaxRecords  == 2        \* balance records of the FIFO allocator
MaxRequests == 2        \* requests the FIFO allocator handles
Today       == 2        \* the day the script runs

(* Cell values *)

BadCell == -99          \* a cell that is empty or does not parse
NaT     == -98          \* pd.NaT
NaN     == "<NaN>"      \* a missing Non Custom

Days        == {1, 2}
SalesOrders == {1, 2}
Skus        == {"A", "B"}

-----------------------------------------------------------------------------
(* Generic helpers *)

RECURSIVE SumSeq(_)
SumSeq(s) == IF s = << >> THEN 0 ELSE s[1] + SumSeq(Tail(s))

SeqsUpTo(S, n) == UNION {[1..k -> S] : k \in 0..n}

\* str.strip()
Strip(s) ==
    CASE s = " c1" -> "c1"
      [] s = "c2 " -> "c2"
      [] s = "A "  -> "A"
      [] OTHER     -> s

\* pd.to_numeric(errors="coerce").fillna(0.0)
ToNumeric(c) == IF c = BadCell THEN 0 ELSE c

\* pd.to_datetime(errors="coerce")
ToDatetime(c) == IF c = BadCell THEN NaT ELSE c

\* dict.get(k, 0.0)
Get(d, k) == IF k \in DOMAIN d THEN d[k] ELSE 0

\* lexicographic order of strings, on the identifiers of the model
Rank(s) ==
    CASE s = "A"   -> 1
      [] s = "B"   -> 2
      [] s = "c1"  -> 3
      [] s = "c2 " -> 4
      [] s = "cU"  -> 5
      [] OTHER     -> 6

\* sort_values puts NaT after every date
DateKey(d) == IF d = NaT THEN Today + 1000 ELSE d

\* lexicographic order of two tuples of numbers of the same length
RECURSIVE TupleLt(_, _)
TupleLt(a, b) ==
    /\ a # << >>
    /\ \/ a[1] < b[1]
       \/ a[1] = b[1] /\ TupleLt(Tail(a), Tail(b))

\* stable sort of s, keys[i] being the sort key of s[i]: row i goes behind every
\* row with a smaller key and every earlier row with an equal key
SortBy(s, keys) ==
    LET n == Len(s)
        pos(i) == 1 + Cardinality({j \in 1..n : TupleLt(keys[j], keys[i])})
                    + Cardinality({j \in 1..(i-1) : keys[j] = keys[i]})
    IN  [p \in 1..n |-> s[CHOOSE i \in 1..n : pos(i) = p]]

-----------------------------------------------------------------------------
(* Cross reference *)

xref_df == << [Custom |-> "c1",  NonCustom |-> "B"],
              [Custom |-> " c1", NonCustom |-> "A "],
              [Custom |-> "c2",  NonCustom |-> "B"] >>

\* dict(zip(...)): a later row replaces an earlier row with the same key
build_xref_map(xref) ==
    LET keys == {Strip(xref[i].Custom) : i \in 1..Len(xref)}
        last(k) == CHOOSE i \in 1..Len(xref) :
                      /\ Strip(xref[i].Custom) = k
                      /\ \A j \in (i+1)..Len(xref) : Strip(xref[j].Custom) # k
    IN  [k \in keys |-> Strip(xref[last(k)].NonCustom)]

map_custom_to_non(custom, xref_map) ==
    IF Strip(custom) \in DOMAIN xref_map THEN xref_map[Strip(custom)] ELSE NaN

xref_map == build_xref_map(xref_df)

-----------------------------------------------------------------------------
(* Preparation of the inputs *)

\* groupby("Non Custom")["OpenQty"].sum()
prep_mb52(mb52) ==
    LET keys == {mb52[i].NonCustom : i \in 1..Len(mb52)}
    IN  [k \in keys |->
            SumSeq([i \in 1..Len(mb52) |->
                       IF mb52[i].NonCustom = k THEN ToNumeric(mb52[i].OpenQty) ELSE 0])]

prep_rows(df, map) ==
    [i \in 1..Len(df) |->
        [Qty       |-> ToNumeric(df[i].Qty),
         Custom    |-> df[i].Custom,
         SO        |-> df[i].SO,
         EstShip   |-> ToDatetime(df[i].EstShip),
         NonCustom |-> map_custom_to_non(df[i].Custom, map)]]

prep_coois_use(coois, map) == prep_rows(coois, map)

\* dropna(subset=["Non Custom"]).groupby("Non Custom")["Qty"].sum()
coois_demand(use) ==
    LET keys == {use[i].NonCustom : i \in 1..Len(use)} \ {NaN}
    IN  [k \in keys |->
            SumSeq([i \in 1..Len(use) |-> IF use[i].NonCustom = k THEN use[i].Qty ELSE 0])]

prep_zco41(zco, map) == prep_rows(zco, map)

\* mb52_inv.merge(coois_demand, how="left"); CooisQty.fillna(0); OpenQty - CooisQty
build_inv_after(mb52_inv, demand) ==
    [k \in DOMAIN mb52_inv |-> mb52_inv[k] - Get(demand, k)]

-----------------------------------------------------------------------------
(* evaluate_orders *)

\* sort_values(["EstShip", "Sales Order", "Custom"], kind="mergesort")
ZcoKey(r) == << DateKey(r.EstShip), r.SO, Rank(r.Custom) >>

zco_sorted(zco_lines) ==
    SortBy(zco_lines, [i \in 1..Len(zco_lines) |-> ZcoKey(zco_lines[i])])

\* variant: groupby("Sales Order") with its default sort=True
group_keys_sorted(sorted) ==
    LET sos == {sorted[i].SO : i \in 1..Len(sorted)}
        one == CHOOSE f \in [1..Cardinality(sos) -> sos] :
                   \A so \in sos : \E i \in DOMAIN f : f[i] = so
    IN  SortBy(one, [i \in 1..Len(one) |-> << one[i] >>])

\* groupby("Sales Order", sort=False): the keys in order of first appearance
group_keys(sorted) ==
    LET first(i) == \A j \in 1..(i-1) : sorted[j].SO # sorted[i].SO
        idx == SelectSeq([i \in 1..Len(sorted) |-> i], first)
    IN  [k \in 1..Len(idx) |-> sorted[idx[k]].SO]

group_rows(sorted, so) == SelectSeq(sorted, LAMBDA r : r.SO = so)

Max(a, b) == IF a >= b THEN a ELSE b

\* variant: the pd.isna(sku) branch is missing
check_line_no_isna(r, avail) ==
    IF Get(avail, r.NonCustom) >= r.Qty
    THEN [r |-> r, ok |-> TRUE, falt |-> 0, note |-> "Suficiente inventario, pasar"]
    ELSE [r |-> r, ok |-> FALSE, falt |-> Max(0, r.Qty - Get(avail, r.NonCustom)),
          note |-> "No suficiente"]

\* the body of the loop over the lines of a group, lines 117-129
check_line(r, avail) ==
    IF r.NonCustom = NaN
    THEN [r |-> r, ok |-> FALSE, falt |-> r.Qty, note |-> "Sin mapeo a Non Custom"]
    ELSE IF Get(avail, r.NonCustom) >= r.Qty
         THEN [r |-> r, ok |-> TRUE, falt |-> 0, note |-> "Suficiente inventario, pasar"]
         ELSE [r |-> r, ok |-> FALSE, falt |-> Max(0, r.Qty - Get(avail, r.NonCustom)),
               note |-> "No suficiente"]

check_group(grp, avail) == [i \in 1..Len(grp) |-> check_line(grp[i], avail)]

all_ok(checks) == \A i \in 1..Len(checks) : checks[i].ok

\* avail_dict[sku] = avail_dict.get(sku, 0.0) - qty
descontar_linea(avail, sku, qty) ==
    [k \in DOMAIN avail \cup {sku} |-> IF k = sku THEN Get(avail, sku) - qty ELSE avail[k]]

\* variant: every line is discounted from the availability read before the loop
descontar_stale(checks, avail) ==
    LET skus == {checks[i].r.NonCustom : i \in 1..Len(checks)}
        last(k) == CHOOSE i \in 1..Len(checks) :
                      /\ checks[i].r.NonCustom = k
                      /\ \A j \in (i+1)..Len(checks) : checks[j].r.NonCustom # k
    IN  [k \in DOMAIN avail \cup skus |->
            IF k \in skus THEN Get(avail, k) - checks[last(k)].r.Qty ELSE avail[k]]

RECURSIVE descontar(_, _)
descontar(checks, avail) ==
    IF checks = << >> THEN avail
    ELSE descontar(Tail(checks),
                   descontar_linea(avail, checks[1].r.NonCustom, checks[1].r.Qty))

\* variant: the lines that are OK are discounted whatever the other lines say
commit_ok_lines(order_ok, checks, avail) ==
    descontar(SelectSeq(checks, LAMBDA c : c.ok), avail)

\* lines 131-135
commit_group(order_ok, checks, avail) ==
    IF order_ok THEN descontar(checks, avail) ELSE avail

\* grp["EstShip"].min() skips NaT
min_ship(grp) ==
    LET ds == {grp[i].EstShip : i \in 1..Len(grp)} \ {NaT}
    IN  IF ds = {} THEN NaT ELSE CHOOSE d \in ds : \A e \in ds : d <= e

order_row(so, grp, order_ok) ==
    [SO |-> so, EstShipMin |-> min_ship(grp), Total |-> Len(grp),
     Status |-> IF order_ok THEN "PASAR" ELSE "NO PASAR"]

line_row(c) ==
    [SO |-> c.r.SO, EstShip |-> c.r.EstShip, Custom |-> c.r.Custom,
     NonCustom |-> c.r.NonCustom, Qty |-> c.r.Qty, Nota |-> c.note,
     Shortage |-> c.falt, Resultado |-> IF c.ok THEN "OK" ELSE "Insuficiente"]

\* sort_values(["Est. Ship min", "Sales Order"])
OrdersKey(r) == << DateKey(r.EstShipMin), r.SO >>

sort_orders(orders) == SortBy(orders, [i \in 1..Len(orders) |-> OrdersKey(orders[i])])

\* sort_values(["Est. Ship", "Sales Order", "Custom"])
sort_lines(lines) == SortBy(lines, [i \in 1..Len(lines) |-> ZcoKey(lines[i])])

\* list(avail_dict.items()) sorted by "Non Custom"
final_avail(avail) ==
    LET ks == DOMAIN avail
        one == CHOOSE f \in [1..Cardinality(ks) -> ks] : \A k \in ks : \E i \in DOMAIN f : f[i] = k
    IN  SortBy([i \in 1..Cardinality(ks) |-> [NonCustom |-> one[i], Avail |-> avail[one[i]]]],
               [i \in 1..Cardinality(ks) |-> << Rank(one[i]) >>])

-----------------------------------------------------------------------------
(* Reports *)

\* merge(orders_df[["Sales Order", "Status"]], on="Sales Order", how="left")
status_of(orders, so) ==
    LET hits == {i \in 1..Len(orders) : orders[i].SO = so}
    IN  IF hits = {} THEN "" ELSE orders[CHOOSE i \in hits : TRUE].Status

\* ascending list of the identifiers in ks, as groupby orders its keys
sorted_keys(ks) ==
    LET one == CHOOSE f \in [1..Cardinality(ks) -> ks] :
                   \A i, j \in DOMAIN f : i < j => Rank(f[i]) < Rank(f[j])
    IN  one

build_inventario_necesito(orders, lines, inv) ==
    LET falta(r) == /\ status_of(orders, r.SO) = "NO PASAR"
                    /\ r.Shortage > 0
                    /\ r.NonCustom # NaN
        falt_keys == {lines[i].NonCustom : i \in {j \in 1..Len(lines) : falta(lines[j])}}
        falt_group == [k \in falt_keys |->
                          SumSeq([i \in 1..Len(lines) |->
                                     IF falta(lines[i]) /\ lines[i].NonCustom = k
                                     THEN lines[i].Shortage ELSE 0])]
        neg_keys == {k \in DOMAIN inv : inv[k] < 0}
        neg == [k \in neg_keys |-> 0 - inv[k]]
        keys == sorted_keys(falt_keys \cup neg_keys)
        out == [i \in 1..Len(keys) |->
                   [NonCustom |-> keys[i],
                    NeededQty |-> Get(falt_group, keys[i]) + Get(neg, keys[i])]]
        pos == SelectSeq(out, LAMBDA r : r.NeededQty > 0)
    IN  SortBy(pos, [i \in 1..Len(pos) |-> << 0 - pos[i].NeededQty >>])

\* variant: today counts as past due
is_past_due_incl(est_ship, today) == est_ship # NaT /\ est_ship <= today

\* Est. Ship notna and Est. Ship < today
is_past_due(est_ship, today) == est_ship # NaT /\ est_ship < today

build_past_due_zco(lines, today) ==
    sort_lines(SelectSeq(lines, LAMBDA r : is_past_due(r.EstShip, today)))

\* nota_result, lines 199-205; a sku missing from inv_after counts as 0
nota_result(inv, sku) ==
    IF Get(inv, sku) >= 0
    THEN [Nota |-> "Suficiente inventario, pasar", Resultado |-> "OK", Shortage |-> 0]
    ELSE [Nota |-> "No suficiente", Resultado |-> "Insuficiente", Shortage |-> 0 - Get(inv, sku)]

build_past_due_coois(use, inv, map, today) ==
    LET base == [i \in 1..Len(use) |->
                    [SO |-> use[i].SO, EstShip |-> ToDatetime(use[i].EstShip),
                     Custom |-> use[i].Custom, Qty |-> use[i].Qty,
                     NonCustom |-> map_custom_to_non(use[i].Custom, map)]]
        past == SelectSeq(base, LAMBDA r : is_past_due(r.EstShip, today))
        rows == [i \in 1..Len(past) |->
                    [SO |-> past[i].SO, EstShip |-> past[i].EstShip,
                     Custom |-> past[i].Custom, NonCustom |-> past[i].NonCustom,
                     Qty |-> past[i].Qty,
                     Nota |-> nota_result(inv, past[i].NonCustom).Nota,
                     Resultado |-> nota_result(inv, past[i].NonCustom).Resultado,
                     Shortage |-> nota_result(inv, past[i].NonCustom).Shortage]]
    IN  sort_lines(rows)

-----------------------------------------------------------------------------
(* The uploaded tables *)

Mb52Rows  == [NonCustom : Skus, OpenQty : {1, 2, BadCell}]

\* what a COOIS row commits and what a ZCO41 row asks for: << Custom, Qty >>
Commitments == { << "c1", 1 >>, << "c1", 2 >>, << "c2 ", 2 >>, << "cU", 1 >> }
Demands     == { << "c1", 1 >>, << "c1", 2 >>, << "c2 ", 1 >>, << "cU", -1 >> }

CooisRows == { [Qty |-> d[2], Custom |-> d[1], SO |-> 1, EstShip |-> e] :
                  d \in Commitments, e \in Days \cup {BadCell} }
ZcoRows   == { [Qty |-> d[2], EstShip |-> e, SO |-> so, Custom |-> d[1]] :
                  d \in Demands, e \in Days \cup {BadCell}, so \in SalesOrders }

Mb52Row(sku, q)       == [NonCustom |-> sku, OpenQty |-> q]
CooisRow(c, q, d)     == [Qty |-> q, Custom |-> c, SO |-> 1, EstShip |-> d]
ZcoRow(so, d, c, q)   == [Qty |-> q, EstShip |-> d, SO |-> so, Custom |-> c]

\* representative tables: one table is enumerated, the others are taken from here
SomeMb52  == { << Mb52Row("A", 2), Mb52Row("B", 1) >>,
               << Mb52Row("A", 1) >> }
SomeCoois == { << CooisRow("c1", 1, 1) >>,
               << CooisRow("c2 ", 2, BadCell), CooisRow("cU", 1, 2) >> }
SomeZco   == { << ZcoRow(1, 2, "c1", 1), ZcoRow(2, 2, "c2 ", 1), ZcoRow(1, 1, "cU", 0) >>,
               << ZcoRow(2, 1, "c1", 2), ZcoRow(1, 2, "c1", 1), ZcoRow(2, 2, "c2 ", 1) >>,
               << ZcoRow(1, BadCell, "c1", -1), ZcoRow(1, 1, "c1", 1), ZcoRow(2, 2, "c2 ", 0) >>,
               << ZcoRow(1, 1, "cU", 1), ZcoRow(1, 1, "c2 ", 2), ZcoRow(2, 2, "c1", 1) >> }

Init ==
    /\ pc = "loaded"
    /\ \/ /\ mb52_df = << Mb52Row("A", 2), Mb52Row("B", 1) >>
          /\ coois_df \in SomeCoois
          /\ zco41_df \in SeqsUpTo(ZcoRows, MaxZcoLines)
       \/ /\ mb52_df \in SeqsUpTo(Mb52Rows, MaxRows)
          /\ coois_df \in SomeCoois
          /\ zco41_df \in SomeZco
       \/ /\ mb52_df \in SomeMb52
          /\ coois_df \in SeqsUpTo(CooisRows, MaxRows)
          /\ zco41_df \in SomeZco
    /\ coois_use = << >>
    /\ zco_use = << >>
    /\ inv_after = << >>
    /\ avail_dict = << >>
    /\ pending = << >>
    /\ orders_out = << >>
    /\ lines_out = << >>
    /\ orders_df = << >>
    /\ lines_df = << >>
    /\ final_avail_df = << >>
    /\ inventario_necesito = << >>
    /\ past_due_zco = << >>
    /\ past_due_coois = << >>
    /\ balances = << >>
    /\ results = << >>
    /\ served = 0

-----------------------------------------------------------------------------
(* The steps of the script *)

\* lines 263-280 up to the loop of evaluate_orders
Prepare ==
    /\ pc = "loaded"
    /\ coois_use' = prep_coois_use(coois_df, xref_map)
    /\ inv_after' = build_inv_after(prep_mb52(mb52_df), coois_demand(coois_use'))
    /\ zco_use' = prep_zco41(zco41_df, xref_map)
    /\ avail_dict' = inv_after'
    /\ pending' = group_keys(zco_sorted(zco_use'))
    /\ pc' = "evaluating"
    /\ UNCHANGED << allocator, mb52_df, coois_df, zco41_df, orders_out, lines_out, orders_df,
                    lines_df, final_avail_df, inventario_necesito, past_due_zco,
                    past_due_coois >>

\* one turn of the loop over the sales orders, lines 112-154
EvalGroup ==
    /\ pc = "evaluating"
    /\ pending # << >>
    /\ LET so == Head(pending)
           grp == group_rows(zco_sorted(zco_use), so)
           checks == check_group(grp, avail_dict)
           order_ok == all_ok(checks)
       IN  /\ avail_dict' = commit_group(order_ok, checks, avail_dict)
           /\ orders_out' = Append(orders_out, order_row(so, grp, order_ok))
           /\ lines_out' = lines_out \o [i \in 1..Len(checks) |-> line_row(checks[i])]
    /\ pending' = Tail(pending)
    /\ UNCHANGED << allocator, pc, mb52_df, coois_df, zco41_df, coois_use, zco_use, inv_after,
                    orders_df, lines_df, final_avail_df, inventario_necesito,
                    past_due_zco, past_due_coois >>

\* lines 156-162; sort_values on a frame without columns raises KeyError
EvalReturn ==
    /\ pc = "evaluating"
    /\ pending = << >>
    /\ IF orders_out = << >>
       THEN /\ pc' = "KeyError"
            /\ UNCHANGED << orders_df, lines_df, final_avail_df >>
       ELSE /\ pc' = "evaluated"
            /\ orders_df' = sort_orders(orders_out)
            /\ lines_df' = sort_lines(lines_out)
            /\ final_avail_df' = final_avail(avail_dict)
    /\ UNCHANGED << allocator, mb52_df, coois_df, zco41_df, coois_use, zco_use, inv_after,
                    avail_dict, pending, orders_out, lines_out, inventario_necesito,
                    past_due_zco, past_due_coois >>

\* lines 283-287; with no past-due COOIS row, zip(*...) at line 207 yields
\* nothing to unpack and build_past_due_coois raises ValueError
Report ==
    /\ pc = "evaluated"
    /\ inventario_necesito' = build_inventario_necesito(orders_df, lines_df, inv_after)
    /\ past_due_zco' = build_past_due_zco(lines_df, Today)
    /\ IF build_past_due_coois(coois_use, inv_after, xref_map, Today) = << >>
       THEN /\ pc' = "ValueError"
            /\ UNCHANGED past_due_coois
       ELSE /\ pc' = "done"
            /\ past_due_coois' = build_past_due_coois(coois_use, inv_after, xref_map, Today)
    /\ UNCHANGED << allocator, mb52_df, coois_df, zco41_df, coois_use, zco_use, inv_after,
                    avail_dict, pending, orders_out, lines_out, orders_df, lines_df,
                    final_avail_df >>

Next == Prepare \/ EvalGroup \/ EvalReturn \/ Report

Spec == Init /\ [][Next]_vars

-----------------------------------------------------------------------------
(* FIFO allocator: each request consumes the balance records of its
   identifier in priority order *)

Remainings == {0, 1, 2}
RequestQtys == {0, 1, 2, 3}

BalanceRecords == [id : Skus, remaining : Remainings]

Min(a, b) == IF a <= b THEN a ELSE b

\* the records of the identifier, in priority order
fifo_records(bal, id) ==
    SelectSeq([i \in 1..Len(bal) |-> i], LAMBDA i : bal[i].id = id)

\* variant: a record gives all it has left, whatever is still outstanding
RECURSIVE fifo_split_all(_, _, _, _)
fifo_split_all(bal, idx, outstanding, frags) ==
    IF idx = << >> \/ outstanding <= 0
    THEN [balances |-> bal, results |-> frags, outstanding |-> Max(0, outstanding)]
    ELSE LET i == Head(idx)
             take == bal[i].remaining
         IN  IF bal[i].remaining > 0
             THEN fifo_split_all([bal EXCEPT ![i].remaining = @ - take], Tail(idx),
                                 outstanding - take,
                                 Append(frags, [source |-> i, consumed |-> take,
                                                shortfall |-> 0, tag |-> "split"]))
             ELSE fifo_split_all(bal, Tail(idx), outstanding, frags)

\* step 3: every record with something left gives min(remaining, outstanding)
RECURSIVE fifo_split(_, _, _, _)
fifo_split(bal, idx, outstanding, frags) ==
    IF idx = << >> \/ outstanding = 0
    THEN [balances |-> bal, results |-> frags, outstanding |-> outstanding]
    ELSE LET i == Head(idx)
             take == Min(bal[i].remaining, outstanding)
         IN  IF bal[i].remaining > 0
             THEN fifo_split([bal EXCEPT ![i].remaining = @ - take], Tail(idx),
                             outstanding - take,
                             Append(frags, [source |-> i, consumed |-> take,
                                            shortfall |-> 0, tag |-> "split"]))
             ELSE fifo_split(bal, Tail(idx), outstanding, frags)

\* steps 1 to 4 for one request of quantity q against identifier id
fifo_allocate(bal, id, q) ==
    LET idx == fifo_records(bal, id)
        fits == {k \in 1..Len(idx) : bal[idx[k]].remaining >= q}
    IN  IF idx = << >>
        THEN [balances |-> bal,
              results |-> << [source |-> 0, consumed |-> 0, shortfall |-> q,
                              tag |-> "no-match"] >>]
        ELSE IF fits # {}
        THEN LET i == idx[CHOOSE k \in fits : \A m \in fits : k <= m]
             IN  [balances |-> [bal EXCEPT ![i].remaining = @ - q],
                  results |-> << [source |-> i, consumed |-> q, shortfall |-> 0,
                                  tag |-> "matched"] >>]
        ELSE LET out == fifo_split(bal, idx, q, << >>)
             IN  [balances |-> out.balances,
                  results |->
                      IF out.outstanding > 0
                      THEN Append(out.results,
                                  [source |-> 0, consumed |-> 0,
                                   shortfall |-> out.outstanding,
                                   tag |-> "unmatched-partial"])
                      ELSE out.results]

InitFIFO ==
    /\ pc = "fifo"
    /\ mb52_df = << >>
    /\ coois_df = << >>
    /\ zco41_df = << >>
    /\ coois_use = << >>
    /\ zco_use = << >>
    /\ inv_after = << >>
    /\ avail_dict = << >>
    /\ pending = << >>
    /\ orders_out = << >>
    /\ lines_out = << >>
    /\ orders_df = << >>
    /\ lines_df = << >>
    /\ final_avail_df = << >>
    /\ inventario_necesito = << >>
    /\ past_due_zco = << >>
    /\ past_due_coois = << >>
    /\ balances \in SeqsUpTo(BalanceRecords, MaxRecords)
    /\ results = << >>
    /\ served = 0

\* one request of the stream
Allocate ==
    /\ pc = "fifo"
    /\ served < MaxRequests
    /\ \E id \in Skus, q \in RequestQtys :
           LET out == fifo_allocate(balances, id, q)
           IN  /\ balances' = out.balances
               /\ results' = results \o
                      [i \in 1..Len(out.results) |->
                          [request |-> served + 1, id |-> id, requested |-> q,
                           source |-> out.results[i].source,
                           consumed |-> out.results[i].consumed,
                           shortfall |-> out.results[i].shortfall,
                           tag |-> out.results[i].tag]]
    /\ served' = served + 1
    /\ UNCHANGED analyser

NextFIFO == Allocate

SpecFIFO == InitFIFO /\ [][NextFIFO]_vars

-----------------------------------------------------------------------------
(* Vocabulary of the properties *)

\* the reports have been built (build_past_due_coois may have raised)
Reported == pc \in {"done", "ValueError"}

\* sum of the values of the function f
RECURSIVE SumFn(_)
SumFn(f) ==
    IF DOMAIN f = {} THEN 0
    ELSE LET x == CHOOSE y \in DOMAIN f : TRUE
         IN  f[x] + SumFn([z \in DOMAIN f \ {x} |-> f[z]])

Count(s, Test(_)) == Cardinality({i \in 1..Len(s) : Test(s[i])})

\* a turn of the loop over the sales orders has just been taken
GroupStep == pc = "evaluating" /\ Len(orders_out') = Len(orders_out) + 1

\* the order record and the line records that turn appended
NewOrder == orders_out'[Len(orders_out')]
NewLines == SubSeq(lines_out', Len(lines_out) + 1, Len(lines_out'))

\* the lines of sales order so handed to evaluate_orders
InputLines(so) == SelectSeq(zco_use, LAMBDA r : r.SO = so)
InputQty(so, sku) ==
    SumSeq([i \in 1..Len(zco_use) |->
               IF zco_use[i].SO = so /\ zco_use[i].NonCustom = sku THEN zco_use[i].Qty ELSE 0])

\* the line records of sales order so
ResultLines(so) == SelectSeq(lines_out, LAMBDA r : r.SO = so)

AllSkus == Skus \cup DOMAIN avail_dict

\* the cross reference has a row for the identifier
HasMapping(custom) == \E i \in 1..Len(xref_df) : Strip(xref_df[i].Custom) = Strip(custom)

-----------------------------------------------------------------------------
(* C1: a sales order is PASAR only if every one of its lines is OK; when some
   line is not OK the order is NO PASAR and the turn of the loop that handled
   it leaves the availability of every identifier exactly as it was. *)

C1_StatusByLines ==
    \A k \in 1..Len(orders_out) :
        LET rs == ResultLines(orders_out[k].SO)
        IN  (orders_out[k].Status = "PASAR") <=>
                (\A i \in 1..Len(rs) : rs[i].Resultado = "OK")

C1_FailLeavesPool ==
    (GroupStep /\ \E i \in 1..Len(NewLines) : NewLines[i].Resultado # "OK")
        => /\ NewOrder.Status = "NO PASAR"
           /\ avail_dict' = avail_dict

C1_AllOrNothing == [](C1_StatusByLines) /\ [][C1_FailLeavesPool]_vars

\* a rejected order with a line that alone would have consumed inventory
C1_Witness ==
    /\ orders_out # << >>
    /\ LET last == orders_out[Len(orders_out)]
           rs == ResultLines(last.SO)
       IN  /\ last.Status = "NO PASAR"
           /\ \E i \in 1..Len(rs) : rs[i].Resultado = "OK" /\ rs[i].Qty > 0
           /\ \E i \in 1..Len(rs) : rs[i].Resultado # "OK" /\ rs[i].NonCustom # NaN

-----------------------------------------------------------------------------
(* C2: when a sales order is PASAR, the turn that handled it lowers the
   availability of each identifier by the sum of the quantities its lines ask
   of that identifier, the whole pool by the sum of all its quantities, and
   every line was checked against the availability before the first
   discount. *)

C2_PassDiscounts ==
    (GroupStep /\ NewOrder.Status = "PASAR") =>
        LET so == NewOrder.SO
            drop(sku) == Get(avail_dict, sku) - Get(avail_dict', sku)
            rows == InputLines(so)
        IN  /\ \A sku \in Skus \cup DOMAIN avail_dict \cup DOMAIN avail_dict' :
                   drop(sku) = InputQty(so, sku)
            /\ SumFn([sku \in Skus \cup DOMAIN avail_dict \cup DOMAIN avail_dict' |-> drop(sku)])
                   = SumSeq([i \in 1..Len(rows) |-> rows[i].Qty])
            /\ Len(NewLines) = Len(rows)
            /\ \A i \in 1..Len(rows) : Get(avail_dict, rows[i].NonCustom) >= rows[i].Qty

C2_Conservation == [][C2_PassDiscounts]_vars

\* an accepted order with two lines that ask for the same identifier
C2_Witness ==
    /\ orders_out # << >>
    /\ LET last == orders_out[Len(orders_out)]
           rs == ResultLines(last.SO)
       IN  /\ last.Status = "PASAR"
           /\ \E i, j \in 1..Len(rs) :
                  i # j /\ rs[i].NonCustom = rs[j].NonCustom /\ rs[i].Qty > 0 /\ rs[j].Qty > 0

-----------------------------------------------------------------------------
(* C3: with no negative availability at the start and no negative quantity
   asked, no identifier has a negative availability in any state of the
   pass. *)

C3_NeverNegative ==
    (/\ pc \in {"evaluating", "evaluated", "done", "ValueError"}
     /\ \A k \in DOMAIN inv_after : inv_after[k] >= 0
     /\ \A i \in 1..Len(zco_use) : zco_use[i].Qty >= 0)
        => \A k \in DOMAIN avail_dict : avail_dict[k] >= 0

-----------------------------------------------------------------------------
(* C4: the sales orders are handled one after another in ascending order of
   (earliest ship date of the order, sales order), an order without any
   readable date after the dated ones; each line is checked against the
   initial availability less what the orders accepted before it consumed;
   an order record, once written, never changes. *)

RawDates(so) ==
    {zco41_df[i].EstShip : i \in {j \in 1..Len(zco41_df) : zco41_df[j].SO = so}} \ {BadCell}

EarliestDate(so) == CHOOSE d \in RawDates(so) : \A e \in RawDates(so) : d <= e

HandledBefore(so1, so2) ==
    IF RawDates(so1) # {} /\ RawDates(so2) # {}
    THEN \/ EarliestDate(so1) < EarliestDate(so2)
         \/ EarliestDate(so1) = EarliestDate(so2) /\ so1 < so2
    ELSE \/ RawDates(so1) # {} /\ RawDates(so2) = {}
         \/ RawDates(so1) = {} /\ RawDates(so2) = {} /\ so1 < so2

\* initial availability less the consumption of the orders accepted before turn k
AvailAtTurn(k, sku) ==
    Get(inv_after, sku)
      - SumSeq([i \in 1..(k-1) |->
                   IF orders_out[i].Status = "PASAR"
                   THEN InputQty(orders_out[i].SO, sku) ELSE 0])

C4_Order ==
    /\ \A i, j \in 1..Len(orders_out) :
           i < j => HandledBefore(orders_out[i].SO, orders_out[j].SO)
    /\ (pc \in {"evaluated", "done", "ValueError"} \/ (pc = "evaluating" /\ pending = << >>))
           => {orders_out[i].SO : i \in 1..Len(orders_out)}
                  = {zco41_df[i].SO : i \in 1..Len(zco41_df)}

C4_Visible ==
    /\ \A k \in 1..Len(orders_out) :
           LET rs == ResultLines(orders_out[k].SO)
           IN  \A i \in 1..Len(rs) :
                   rs[i].NonCustom # NaN =>
                       ((rs[i].Resultado = "OK") <=>
                            (AvailAtTurn(k, rs[i].NonCustom) >= rs[i].Qty))
    /\ pc = "evaluating" =>
           \A sku \in AllSkus : Get(avail_dict, sku) = AvailAtTurn(Len(orders_out) + 1, sku)

C4_Returned ==
    pc \in {"evaluated", "done", "ValueError"} =>
        /\ Len(orders_df) = Len(orders_out)
        /\ \A i \in 1..Len(orders_out) : \E j \in 1..Len(orders_df) : orders_df[j] = orders_out[i]

C4_Kept ==
    \A i \in 1..Len(orders_out) :
        Len(orders_out') >= i /\ orders_out'[i] = orders_out[i]

C4_Sequential == [](C4_Order /\ C4_Visible /\ C4_Returned) /\ [][C4_Kept]_vars

\* the order with the larger number went first, was accepted, and a line of the
\* second order fails on what is left although the initial pool would have covered it
C4_Witness ==
    /\ Len(orders_out) = 2
    /\ orders_out[1].SO > orders_out[2].SO
    /\ orders_out[1].Status = "PASAR"
    /\ \E i \in 1..Len(lines_out) :
           /\ lines_out[i].SO = orders_out[2].SO
           /\ lines_out[i].NonCustom # NaN
           /\ lines_out[i].Resultado # "OK"
           /\ Get(inv_after, lines_out[i].NonCustom) >= lines_out[i].Qty

-----------------------------------------------------------------------------
(* C5: the availability the evaluation starts from is, for every identifier,
   the summed MB52 quantity less the summed COOIS quantity of the rows that
   map to it, also for an identifier that has COOIS rows and no MB52 row. *)

Supply(sku) ==
    SumSeq([i \in 1..Len(mb52_df) |->
               IF mb52_df[i].NonCustom = sku THEN ToNumeric(mb52_df[i].OpenQty) ELSE 0])

Committed(sku) ==
    SumSeq([i \in 1..Len(coois_df) |->
               IF HasMapping(coois_df[i].Custom) /\ xref_map[Strip(coois_df[i].Custom)] = sku
               THEN ToNumeric(coois_df[i].Qty) ELSE 0])

NetAvail(sku) == Supply(sku) - Committed(sku)

C5_PoolIsNet ==
    /\ pc # "loaded" => \A sku \in Skus : Get(inv_after, sku) = NetAvail(sku)
    /\ (pc = "evaluating" /\ orders_out = << >>)
           => \A sku \in Skus : Get(avail_dict, sku) = NetAvail(sku)

-----------------------------------------------------------------------------
(* C6: a line whose identifier has no row in the cross reference is never OK,
   whatever the availability and the quantity; its order is NO PASAR and
   consumes nothing; the other lines of the order still get their own result,
   and the loop goes on to the next order. *)

C6_NeverOk ==
    /\ \A i \in 1..Len(lines_out) :
           ~HasMapping(lines_out[i].Custom) =>
               /\ lines_out[i].Resultado = "Insuficiente"
               /\ \A k \in 1..Len(orders_out) :
                      orders_out[k].SO = lines_out[i].SO => orders_out[k].Status = "NO PASAR"
    /\ pc = "KeyError" => zco41_df = << >>
    /\ pc \in {"evaluated", "done", "ValueError"} =>
           \A i \in 1..Len(zco41_df) : \E k \in 1..Len(orders_out) :
               orders_out[k].SO = zco41_df[i].SO

C6_Turn ==
    (GroupStep /\ \E i \in 1..Len(zco_use) :
                      zco_use[i].SO = NewOrder.SO /\ ~HasMapping(zco_use[i].Custom))
        => /\ avail_dict' = avail_dict
           /\ NewOrder.Status = "NO PASAR"
           /\ Len(NewLines) = Len(InputLines(NewOrder.SO))
           /\ \A i \in 1..Len(NewLines) :
                  HasMapping(NewLines[i].Custom) =>
                      ((NewLines[i].Resultado = "OK") <=>
                           (Get(avail_dict, NewLines[i].NonCustom) >= NewLines[i].Qty))
           /\ pc' = "evaluating"
           /\ pending' = Tail(pending)

C6_UnmappedFails == [](C6_NeverOk) /\ [][C6_Turn]_vars

\* an unmapped line asking for 0 was checked before a line of the same order that
\* is OK, and a second order was handled afterwards
C6_Witness ==
    /\ Len(orders_out) = 2
    /\ \E i, j \in 1..Len(lines_out) :
           /\ i < j
           /\ lines_out[i].SO = orders_out[1].SO
           /\ lines_out[j].SO = orders_out[1].SO
           /\ ~HasMapping(lines_out[i].Custom)
           /\ lines_out[i].Qty = 0
           /\ lines_out[j].Resultado = "OK"

-----------------------------------------------------------------------------
(* C7: a line with a canonical identifier is OK exactly when the availability
   of that identifier when its order is checked (0 when the pool has no such
   identifier) covers the quantity; a line that fails reports the shortfall
   max(0, quantity - availability), a line that is OK reports 0, so that no
   reported shortfall is negative; a rejected order leaves the pool as it
   was. *)

C7_Line(r, avail) ==
    LET av == Get(avail, r.NonCustom)
    IN  /\ r.NonCustom # NaN => ((r.Resultado = "OK") <=> (av >= r.Qty))
        /\ r.Resultado # "OK" => r.Shortage = Max(0, r.Qty - av)
        /\ r.Resultado = "OK" => r.Shortage = 0
        /\ r.Shortage >= 0

C7_Turn ==
    GroupStep =>
        /\ \A i \in 1..Len(NewLines) : C7_Line(NewLines[i], avail_dict)
        /\ NewOrder.Status = "NO PASAR" => avail_dict' = avail_dict

C7_LineResult == [][C7_Turn]_vars

-----------------------------------------------------------------------------
(* C8: the needed quantity of an identifier is the sum of the shortfalls of
   its lines in the NO PASAR orders plus, when its net availability (MB52
   less COOIS) is negative, the absolute value of that; the report has one
   row for each identifier that needs more than 0, and no other row, in
   descending order of the needed quantity. *)

RejectedShortfall(sku) ==
    SumSeq([i \in 1..Len(lines_df) |->
               IF /\ lines_df[i].NonCustom = sku
                  /\ \E k \in 1..Len(orders_df) :
                         orders_df[k].SO = lines_df[i].SO /\ orders_df[k].Status = "NO PASAR"
               THEN lines_df[i].Shortage ELSE 0])

Needed(sku) ==
    RejectedShortfall(sku) + (IF NetAvail(sku) < 0 THEN 0 - NetAvail(sku) ELSE 0)

C8_Necesito ==
    Reported =>
        /\ \A sku \in Skus :
               Count(inventario_necesito,
                     LAMBDA r : r.NonCustom = sku /\ r.NeededQty = Needed(sku))
                   = (IF Needed(sku) > 0 THEN 1 ELSE 0)
        /\ \A i \in 1..Len(inventario_necesito) :
               /\ inventario_necesito[i].NonCustom \in Skus
               /\ inventario_necesito[i].NeededQty = Needed(inventario_necesito[i].NonCustom)
        /\ \A i, j \in 1..Len(inventario_necesito) :
               i < j => inventario_necesito[i].NeededQty >= inventario_necesito[j].NeededQty

-----------------------------------------------------------------------------
(* C9: a ZCO41 or COOIS row is in the past-due report exactly when its ship
   date is readable and earlier than today; a row dated today, and a row
   whose date is missing or unreadable, is never in it. *)

Same(row, raw) ==
    /\ row.SO = raw.SO
    /\ row.Custom = raw.Custom
    /\ row.Qty = ToNumeric(raw.Qty)
    /\ row.EstShip = (IF raw.EstShip = BadCell THEN NaT ELSE raw.EstShip)

Overdue(raw) == raw.EstShip \in Int /\ raw.EstShip # BadCell /\ raw.EstShip < Today

C9_Report(report, df) ==
    /\ \A i \in 1..Len(df) :
           Count(report, LAMBDA row : Same(row, df[i]))
               = (IF Overdue(df[i]) THEN Count(df, LAMBDA raw : raw = df[i]) ELSE 0)
    /\ \A i \in 1..Len(report) :
           /\ report[i].EstShip # NaT
           /\ report[i].EstShip < Today
           /\ \E j \in 1..Len(df) : Same(report[i], df[j])

C9_PastDue ==
    Reported => /\ C9_Report(past_due_zco, zco41_df)
                /\ C9_Report(past_due_coois, coois_df)

\* rows dated the day before today, today, and without a readable date
C9_Witness ==
    /\ pc = "done"
    /\ \E i, j, k \in 1..Len(zco41_df) :
           /\ zco41_df[i].EstShip = Today - 1
           /\ zco41_df[j].EstShip = Today
           /\ zco41_df[k].EstShip = BadCell
    /\ Len(past_due_zco) = 1
    /\ \E i, j \in 1..Len(coois_df) :
           /\ coois_df[i].EstShip = Today - 1
           /\ coois_df[j].EstShip \in {Today, BadCell}
    /\ Len(past_due_coois) = 1

-----------------------------------------------------------------------------
(* C10: for every request of the FIFO allocator, whatever earlier requests
   left of the balance records, the consumed quantities of its results plus
   its final shortfall add up to the requested quantity, and the balance
   records lose in total exactly what the request consumed. *)

ResultsOf(n) == SelectSeq(results, LAMBDA r : r.request = n)

C10_PerRequest ==
    \A n \in 1..served :
        LET rs == ResultsOf(n)
        IN  /\ rs # << >>
            /\ SumSeq([i \in 1..Len(rs) |-> rs[i].consumed + rs[i].shortfall])
                   = rs[1].requested
            /\ \A i \in 1..Len(rs) : rs[i].consumed >= 0 /\ rs[i].shortfall >= 0

C10_Balances ==
    served' = served + 1 =>
        LET new == SubSeq(results', Len(results) + 1, Len(results'))
        IN  /\ Len(balances') = Len(balances)
            /\ SumSeq([i \in 1..Len(balances) |-> balances[i].remaining])
                 - SumSeq([i \in 1..Len(balances') |-> balances'[i].remaining])
                   = SumSeq([i \in 1..Len(new) |-> new[i].consumed])
            /\ \A i \in 1..Len(balances) :
                   balances[i].remaining - balances'[i].remaining
                       = SumSeq([j \in 1..Len(new) |->
                                    IF new[j].source = i THEN new[j].consumed ELSE 0])

C10_FifoConservation == [](C10_PerRequest) /\ [][C10_Balances]_vars

\* a second request, split over two records that an earlier request had
\* already drawn on, and left partly unserved
C10_Witness ==
    /\ served = 2
    /\ \E i \in 1..Len(results) : results[i].request = 1 /\ results[i].consumed > 0
    /\ Cardinality({i \in 1..Len(results) :
                        results[i].request = 2 /\ results[i].tag = "split"}) = 2
    /\ \E i \in 1..Len(results) :
           results[i].request = 2 /\ results[i].tag = "unmatched-partial"

====
